---- MODULE Spec2Model ----
(***************************************************************************)
(* Model of the polling / reconciliation core of the Chester xBot          *)
(* repository.                                                             *)
(*                                                                         *)
(*   - TwitterBot (src/xBot/bot.py): the archive-and-reply bot.  Its run   *)
(*     loop, process_pending_tweets, process_mention, _upload_to_archive   *)
(*     and the flat-file ledgers (processed_mentions, processed_accounts,  *)
(*     pending_tweets, downloaded_tweets).                                 *)
(*   - TwitterTranslationBot (src/xBot.py): the direct-repost bot with its *)
(*     single cursor last_processed_id.                                    *)
(*                                                                         *)
(* A text is modelled by the language it is written in ("fr" or "en"):     *)
(* that is all the control flow of the bots reads from it; where a text is  *)
(* formatted or truncated (prepare_tweet, truncate_tweet, the repost text  *)
(* of xBot.py) it is a sequence of characters.  A ledger file               *)
(* is modelled by the number of lines holding each id (the code reads it   *)
(* as set(line.strip() for line in f), so the order of lines is never      *)
(* observed).  External collaborators (Twitter, OCR, detection,            *)
(* translation, archive.org, the file system on writes) answer             *)
(* nondeterministically with each outcome the code distinguishes.          *)
(*                                                                         *)
(* Environment assumptions: reading an existing ledger file succeeds       *)
(* (only writes fail); a kill of the process loses its memory and keeps    *)
(* the files; one process runs at a time.                                  *)
(***************************************************************************)
EXTENDS Integers, FiniteSets, Sequences, TLC

\* ------------------------------------------------------------------ bounds
NumMentions == 3
\* one original for every three mentions, so that an original is mentioned
\* more than once
NumOriginals == NumMentions \div 3
NumTweets == 2
\* how far around the 280 limit the lengths of the texts range
Slack == 2

\* bot.py:306  original_tweet_id = None  (a mention with no 'replied_to')
NoRef == 0

Originals == 1..NumOriginals
Mentions == {100 + k : k \in 1..NumMentions}
Ids == Originals \cup Mentions
\* what pending_tweets.txt can name: the originals, and one tweet of an
\* earlier run that no mention refers to any more
PendingIds == Originals \cup {NumOriginals + 1}

\* The 'replied_to' reference carried by each mention (fixed test data):
\* of every three mentions the second carries no reference and the others
\* reply to an original, so that distinct mentions reference the same
\* original (101 -> 1, 102 -> none, 103 -> 1, 104 -> 1, ...).
RefOf(m) ==
    LET k == m - 101
    IN  IF k % 3 = 1 THEN NoRef ELSE ((k \div 3) % NumOriginals) + 1

\* str(original_tweet.author_id): one author per original
AuthorOf(o) == 900 + o
Authors == {AuthorOf(o) : o \in Originals}

IOResults == {"ok", "write_fail"}

\* xBot.py: the posts of the monitored account, oldest first
TargetTweets == 1..NumTweets

\* The originals the source serves: a French text, a French text in an
\* attached image, an English text.
OriginalTweets == {[text |-> "fr", attachments |-> FALSE],
                   [text |-> "fr", attachments |-> TRUE],
                   [text |-> "en", attachments |-> FALSE]}

VARIABLES
    \* ---- TwitterBot: configuration fixed by __init__
    archive_enabled,      \* bot.py:41-49
    detect_api_key,       \* bot.py:22-35 (TRUE: a non-empty key is configured)
    \* ---- source data (immutable once fetched)
    original_tweet,       \* per original: .text (its language) and .attachments
    \* ---- ledgers: in-memory set and file
    processed_mentions, processed_mentions_file,
    processed_accounts, processed_accounts_file,
    pending_tweets, pending_tweets_file,
    downloaded_tweets, downloaded_tweets_file,
    \* ---- control state of TwitterBot.run
    pc,                   \* position in the loop
    new_mentions,         \* mentions of this cycle still to be processed
    cur,                  \* the process_mention call in progress
    retry,                \* what the process_pending_tweets call of this
                          \* cycle did (from its return to get_mentions)
    \* ---- observation of the outside world (history)
    replies,              \* per original: replies posted (0, 1, 2 = more)
    crashed_after_reply,  \* the original that had been replied to when the
                          \* process was killed before the ledger write of
                          \* that process_mention call, until its id is in
                          \* the ledger file (NoRef: no such original)
    \* ---- TwitterTranslationBot (xBot.py), the direct-repost bot
    tweet_text,           \* language of each post of the monitored account
    latest,               \* id of its newest non-reply post (NoRef: none yet)
    last_processed_id,    \* the cursor held by run (NoRef: None)
    last_processed_id_file, \* last_processed_id.txt (NoRef: no file)
    rpc,                  \* position of run: "check", "sleep" or "down"
    iter,                 \* what the last iteration of run did
    posts,                \* per post of the account: reposts published
                          \* (0, 1, 2 = more)
    \* ---- the library functions called on their own (test scripts, clients)
    call                  \* the last call: its arguments and its result

botVars == <<archive_enabled, detect_api_key, original_tweet,
             processed_mentions, processed_mentions_file,
             processed_accounts, processed_accounts_file,
             pending_tweets, pending_tweets_file,
             downloaded_tweets, downloaded_tweets_file,
             pc, new_mentions, cur, retry, replies,
             crashed_after_reply>>

repostVars == <<tweet_text, latest, last_processed_id, last_processed_id_file,
                rpc, iter, posts>>

vars == <<botVars, repostVars, call>>

\* ------------------------------------------------------------- ledger store

\* set(line.strip() for line in f): the ids a ledger file holds
FileSet(file) == {i \in DOMAIN file : file[i] > 0}

EmptyFile(S) == [i \in S |-> 0]

\* f.write(f"{id}\n") after the old contents: one more line holding id
AppendLine(file, id) == [file EXCEPT ![id] = @ + 1]

\* os.path.exists(file): a ledger file is there once a line was written to
\* it (EmptyFile: the file is missing)
Exists(file) == \E i \in DOMAIN file : file[i] > 0

\* Mutant of load_ledger: the file is opened without the test for its
\* existence and the error is not caught.
LoadRaisesWhenMissing(file) == [raised |-> ~Exists(file), ids |-> FileSet(file)]

\* bot.py:212-222, 224-233, 244-253, 274-283: the four load methods.
\* raised: an exception leaves the method.
load_ledger(file) ==
    IF Exists(file)
    THEN [raised |-> FALSE, ids |-> FileSet(file)]              \* 215-218
    ELSE [raised |-> FALSE, ids |-> {}]                         \* 219

\* bot.py:61-67.  file is the id in last_processed_id.txt (NoRef: no file).
_load_last_processed_id(file) ==
    IF file = NoRef THEN [raised |-> FALSE, id |-> NoRef]       \* 66-67
    ELSE [raised |-> FALSE, id |-> file]                        \* 64-65

\* bot.py:212-222
load_processed_mentions(file) == load_ledger(file).ids

\* Mutant of save_processed_mention: the two lookups (174-183) are lost and
\* the id is written whenever the write succeeds.
AppendWithoutLookup(mem, file, id, io) ==
    IF io = "ok"
    THEN [mem |-> mem \cup {id}, file |-> AppendLine(file, id)]
    ELSE [mem |-> mem \cup {id}, file |-> file]

\* bot.py:171-210.  io is the outcome of writing the temporary file and
\* renaming it.  Result: the in-memory set and the file after the call.
save_processed_mention(mem, file, id, io) ==
    IF id \in mem THEN [mem |-> mem, file |-> file]              \* 175-177
    ELSE IF id \in FileSet(file) THEN [mem |-> mem, file |-> file] \* 180-184
    ELSE IF io = "ok"
         THEN LET f2 == AppendLine(file, id)                     \* 190-201
              IN  [mem |-> load_processed_mentions(f2), file |-> f2] \* 204
         ELSE [mem |-> mem \cup {id}, file |-> file]             \* 187, 206-210

\* bot.py:285-293.  A bare append; on failure neither file nor set change.
save_processed_account(mem, file, id, io) ==
    IF io = "ok"
    THEN [mem |-> mem \cup {id}, file |-> AppendLine(file, id)]
    ELSE [mem |-> mem, file |-> file]

\* -------------------------------------------------------- language pipeline

\* translation_service.py:38-76.  text is the language the text is in; key
\* is self.detect_api_key; api is the outcome of single_detection().
detect_language(text, key, api) ==
    IF ~key THEN "null"                    \* 62-64: no API key
    ELSE IF api = "ok" THEN text           \* 67-69
    ELSE "null"                            \* 71-76: exception

\* translation_service.py:78-94.  The result is English text, or None.
translate_text(text, source_language, api) ==
    IF api = "ok" THEN "en" ELSE "null"

\* Mutant of OcrNeedsTranslation: the test on 'en' is lost.
OcrTranslatesWhateverDetected(detected_lang) == detected_lang # "null"

\* ocr_reader.py:44: if detected_lang and detected_lang != 'en'
OcrNeedsTranslation(detected_lang) ==
    detected_lang # "null" /\ detected_lang # "en"

\* ocr_reader.py:21-58.  image is the language of the text in the image;
\* dl is the outcome of the download and of readtext().  The record holds
\* what detect_language returned (.det, "na": not called), what
\* translate_text returned when it was called (.tr, "na": not called) and
\* the text the caller receives (.text, "null" for None).
extract_text_calls(image, key, dl, det_api, tr_api) ==
    IF dl # "ok" THEN [det |-> "na", tr |-> "na", text |-> "null"] \* 56-58
    ELSE LET detected_lang == detect_language(image, key, det_api) \* 40
         IN  IF OcrNeedsTranslation(detected_lang)               \* 44
             THEN LET t == translate_text(image, detected_lang, tr_api) \* 45
                  IN  [det |-> detected_lang,
                       tr |-> IF t = "null" THEN "null" ELSE "ok",
                       text |-> t]
             ELSE [det |-> detected_lang, tr |-> "na", text |-> image] \* 47

\* The steps of extract_text that can raise before the text is there: the
\* download (25-26), writing the image to the temporary file (28-30),
\* readtext (34); "none": none of them raises.
ExtractSteps == {"download", "tempfile", "readtext", "none"}

\* ocr_reader.py:28: NamedTemporaryFile(delete=False) is reached
temp_file_created(fails_at) == fails_at # "download"

\* ocr_reader.py:28-30, 32-54: whether the temporary file is still there when
\* extract_text returns.  os.unlink (52) is inside the finally of the try
\* that starts at 32, after the file was written; an error at 29 goes
\* straight to the except at 56.
temp_file_left(fails_at) == fails_at = "tempfile"

\* ocr_reader.py:21-58: the value extract_text returns
extract_text(image, key, dl, det_api, tr_api) ==
    extract_text_calls(image, key, dl, det_api, tr_api).text

\* ---------------------------------------------------------- text formatting
\* Where the content of a text matters it is a sequence of units (Python's
\* len counts code points); "->" stands for the one code point U+2192.

\* tweet_processor.py:62  def truncate_tweet(text, max_length=280)
max_length == 280

\* a text of n units none of which is a dot
Chars(n) == [i \in 1..n |-> "x"]

\* tweet_processor.py:74  "..."
Ellipsis == <<".", ".", ".">>

\* test_translation.py:29-43: the sample scenario's translation
HelloWorld == <<"H", "e", "l", "l", "o", " ", "w", "o", "r", "l", "d">>

\* None, and a str, as returned by translate_text / prepare_tweet
NoText == [none |-> TRUE, s |-> <<>>]
Str(s) == [none |-> FALSE, s |-> s]

\* translation_service.py:114: the prefix "(<lang> -> en):" and the blank line
LanguageTag(detected_language) ==
    <<"(">> \o detected_language \o <<" ", "->", " ", "e", "n", ")", ":">>

BlankLine == <<"\n", "\n">>

\* language codes the detection service answers with (other than 'en')
LanguageCodes == {<<"f", "r">>, <<"z", "h", "-", "C", "N">>}

\* xBot.py:165: "Translated from @" and the target_username of main (206)
TranslatedFrom ==
    <<"T", "r", "a", "n", "s", "l", "a", "t", "e", "d", " ",
      "f", "r", "o", "m", " ", "@">>
target_username == <<"m", "e", "t", "r", "o", "p", "o", "l", "e", "H", "T">>

\* Lengths of the translations the service returns: empty, short, and
\* around the points where each formatted text crosses max_length.
BodyLengths ==
    {0, 1}
    \cup {max_length - Len(LanguageTag(<<"f", "r">>) \o BlankLine) + d : d \in -Slack..Slack}
    \cup {max_length - Len(TranslatedFrom \o target_username \o <<" ">>
                           \o LanguageTag(<<"f", "r">>) \o BlankLine) + d : d \in -Slack..Slack}
    \cup {max_length + Slack}

\* What translate_text can answer: None, or a text
Translations == {NoText, Str(HelloWorld)} \cup {Str(Chars(n)) : n \in BodyLengths}

\* Mutant of truncate_tweet: the ellipsis is added after max_length units.
TruncateThenAppend(text, max) ==
    IF Len(text) <= max THEN text ELSE SubSeq(text, 1, max) \o Ellipsis

\* Mutant of truncate_tweet: the text is cut at max_length and no ellipsis
\* is added.
TruncateWithoutEllipsis(text, max) ==
    IF Len(text) <= max THEN text ELSE SubSeq(text, 1, max)

\* Python's text[:stop]: a negative stop counts from the end of the text
SliceTo(text, stop) ==
    IF stop >= 0
    THEN SubSeq(text, 1, IF stop < Len(text) THEN stop ELSE Len(text))
    ELSE SubSeq(text, 1, IF Len(text) + stop > 0 THEN Len(text) + stop ELSE 0)

\* tweet_processor.py:61-74
truncate_tweet(text, max) ==
    IF Len(text) <= max THEN text                               \* 70-71
    ELSE SliceTo(text, max - 3) \o Ellipsis                     \* 74

\* translation_service.py:96-117.  translated_text is what translate_text
\* (108) answered for the cleaned text.
prepare_tweet(detected_language, translated_text) ==
    IF translated_text.none \/ translated_text.s = <<>>         \* 110-111
    THEN NoText
    ELSE Str(truncate_tweet(LanguageTag(detected_language) \o BlankLine
                            \o translated_text.s, max_length)) \* 114-117

\* ------------------------------------------------------ publish / archive

\* Mutant of _upload_to_archive: the reply is posted whether or not the
\* upload returned a URL.
ReplyWithoutArchiveUrl(enabled, up, rp) ==
    IF ~enabled
    THEN [attempted |-> FALSE, uploaded |-> FALSE, replied |-> FALSE]
    ELSE [attempted |-> TRUE, uploaded |-> (up = "url"), replied |-> (rp = "ok")]

\* bot.py:132-169 with upload_doc.py:23-89 and twitter_client.py:133-145.
\* up is the outcome of upload_translation ("url" or "none": a non-200
\* answer or an exception, both returned as None); rp that of post_reply.
_upload_to_archive(enabled, up, rp) ==
    IF ~enabled                                                 \* 135-137
    THEN [attempted |-> FALSE, uploaded |-> FALSE, replied |-> FALSE]
    ELSE IF up = "url"                                          \* 153-162
         THEN [attempted |-> TRUE, uploaded |-> TRUE, replied |-> (rp = "ok")]
         ELSE [attempted |-> TRUE, uploaded |-> FALSE, replied |-> FALSE]

\* ------------------------------------------------------------- TwitterBot

\* process_mention did not look for a media URL (the original has no
\* attachments, or process_mention returned before 331)
NoLookup == [account |-> "na", media |-> "na", image_url |-> "na"]

Idle == [m |-> NoRef, o |-> NoRef, stage |-> "idle", why |-> "idle",
         ocr |-> "na", lookup |-> NoLookup,
         det |-> "na", tr |-> "na", up |-> "na", replied |-> FALSE]

Skip(m, o, why) == [Idle EXCEPT !.m = m, !.o = o, !.stage = "skip", !.why = why]

\* Mutant of AlreadyProcessed: only mention ids are looked up, the test on
\* the original's id (317) is lost.
MentionIdsOnly(id) == id \in processed_mentions \cap Mentions

\* bot.py:301 and 317: the two "already processed" tests of process_mention
AlreadyProcessed(id) == id \in processed_mentions

\* bot.py:366: if detected_lang and detected_lang != 'en'
NeedsTranslation(detected_lang) == detected_lang # "null" /\ detected_lang # "en"

\* bot.py:330-362: the text process_mention goes on with
TextOf(o, url, ocr_text) ==
    IF original_tweet[o].attachments /\ url /\ ocr_text # "null"
    THEN ocr_text
    ELSE original_tweet[o].text

NoIteration == [tweet |-> NoRef, det |-> "na", tr |-> "na", post |-> "na",
                published |-> "na", advanced |-> FALSE,
                translated |-> NoText, text |-> NoText]

\* process_pending_tweets has not been called in this cycle
NoRetry == [attempted |-> {}, media |-> {}, removed |-> {}]

\* No library function has been called yet ...
NoCall == [fn |-> "none", lang |-> <<>>, arg |-> NoText, out |-> NoText,
           image |-> "na", det |-> "na", tr |-> "na", text |-> "na",
           reset |-> [present |-> FALSE, value |-> 0], now |-> 0,
           wait |-> [raised |-> FALSE, seconds |-> 0],
           ledger |-> "na", mechanism |-> "na", file |-> {}, id |-> NoRef,
           at |-> "na", left |-> [ids |-> {}, torn |-> FALSE],
           fails_at |-> "na", temp_created |-> FALSE, temp_left |-> FALSE,
           limit |-> 0, cursor |-> 0, skipped |-> <<>>, cursor_file |-> 0]

\* ... and none is called on its own where one of the bots is deployed.
LibraryOff == [NoCall EXCEPT !.fn = "off"]

\* The direct-repost bot is not deployed (main.py runs the archive bot).
RepostAtRest ==
    /\ tweet_text = [t \in TargetTweets |-> "fr"]
    /\ latest = NoRef
    /\ last_processed_id = NoRef
    /\ last_processed_id_file = NoRef
    /\ rpc = "off"
    /\ iter = NoIteration
    /\ posts = [t \in TargetTweets |-> 0]

Init ==
    /\ archive_enabled \in BOOLEAN
    /\ detect_api_key \in BOOLEAN
    /\ original_tweet \in [Originals -> OriginalTweets]
    /\ processed_mentions_file = EmptyFile(Ids)
    /\ processed_mentions = load_processed_mentions(processed_mentions_file)
    /\ processed_accounts_file = EmptyFile(Authors)
    /\ processed_accounts = FileSet(processed_accounts_file)
    \* An earlier run may have left original 1 waiting for its media, and
    \* an older tweet with it.
    /\ pending_tweets_file \in
         {EmptyFile(PendingIds)}
         \cup {[id \in PendingIds |-> IF id \in S THEN 1 ELSE 0] :
                 S \in {S \in {{1}, {1, NumOriginals + 1}} :
                          original_tweet[1].attachments}}
    /\ pending_tweets = FileSet(pending_tweets_file)
    /\ downloaded_tweets_file = EmptyFile(Originals)
    /\ downloaded_tweets = FileSet(downloaded_tweets_file)
    /\ pc = "pending"
    /\ new_mentions = {}
    /\ cur = Idle
    /\ retry = NoRetry
    /\ replies = [o \in Originals |-> 0]
    /\ crashed_after_reply = NoRef
    /\ RepostAtRest
    /\ call = LibraryOff

config == <<archive_enabled, detect_api_key, original_tweet>>
ledgers == <<processed_mentions, processed_mentions_file,
             processed_accounts, processed_accounts_file,
             pending_tweets, pending_tweets_file,
             downloaded_tweets, downloaded_tweets_file>>
history == <<replies, crashed_after_reply>>

\* Mutant of attempted_ids: the retry is skipped (the test of run at 453
\* inverted).
NothingAttempted(pending, outcome) == {}

\* bot.py:394-395, 436-440: each pending id has its own try/except, so every
\* id of the copy list(self.pending_tweets) is attempted.
attempted_ids(pending, outcome) == pending

\* bot.py:399-440, the body of the loop for one pending id.  outcome is what
\* get_media_url did: "no_url", "raise" (e.g. rate limit), or "url": the
\* media is there to be downloaded.  In that case the next statement,
\* self.ocr.download_image(media_url) (404), raises AttributeError because
\* OCRReader (ocr_reader.py:14-58) defines no download_image; the error is
\* caught at 436-440.  TRUE: the id was removed from pending_tweets.
retry_pending_tweet(outcome) ==
    IF outcome = "url" THEN FALSE          \* 404: AttributeError -> 436-440
    ELSE FALSE                             \* 434-435, 436-440

\* bot.py:391-440, called from run at 453-457 when pending_tweets is not
\* empty.  No path of the loop body changes a ledger.
process_pending_tweets ==
    /\ pc = "pending"
    /\ \E outcome \in [pending_tweets -> {"no_url", "url", "raise"}] :
         LET attempted == attempted_ids(pending_tweets, outcome)
             removed == {id \in attempted : retry_pending_tweet(outcome[id])}
         IN  /\ retry' = [attempted |-> attempted,
                          media |-> {id \in attempted : outcome[id] = "url"},
                          removed |-> removed]
             /\ pending_tweets' = pending_tweets \ removed
             /\ pending_tweets_file' = [id \in PendingIds |->
                                          IF id \in removed THEN 0
                                          ELSE pending_tweets_file[id]]
    /\ pc' = "fetch"
    /\ UNCHANGED <<config, processed_mentions, processed_mentions_file,
                   processed_accounts, processed_accounts_file,
                   downloaded_tweets, downloaded_tweets_file,
                   new_mentions, cur, history>>
    /\ UNCHANGED <<repostVars, call>>

\* bot.py:459-471: get_mentions(count=10) and the filter on the ledger.
\* The source answers with any set of mentions (none on an error,
\* twitter_client.py:191-196).
get_mentions ==
    /\ pc = "fetch"
    /\ \E mentions \in SUBSET Mentions :
         new_mentions' = {m \in mentions : m \notin processed_mentions}
    /\ pc' = "mentions"
    /\ retry' = NoRetry
    /\ UNCHANGED <<config, ledgers, cur, history>>
    /\ UNCHANGED <<repostVars, call>>

Max(S) == CHOOSE x \in S : \A y \in S : y <= x

\* The replies observed for an original are counted as 0, 1 or 2, where 2
\* stands for "two or more": the count saturates, no behaviour is cut off.
OneMore(n) == IF n < 2 THEN n + 1 ELSE n

\* Mutant of ReturnEarly: the early exits record the ids like the two ends
\* of process_mention do (380-381, 385-386).
RecordThenReturn(c) ==
    /\ cur' = c
    /\ pc' = "save_mention"

\* Mutant of ReturnEarly: process_mention has no try/except of its own
\* (297, 388-389), so a failed stage is an exception in the loop of run.
RaiseIntoRun(c) ==
    /\ cur' = c
    /\ pc' = "error_wait"

\* process_mention returns (or raises into its own except, 388-389) without
\* reaching the save_processed_mention calls.
ReturnEarly(c) ==
    /\ cur' = c
    /\ pc' = "return"

\* bot.py:364-386: detect, translate, save locally, upload and reply.
\* Ends either at the two save_processed_mention calls (stage "commit") or
\* with an early exit.
DetectTranslatePublish(m, o, text, ocr, lookup) ==
    \E det_api \in {"ok", "fail"} :
      LET detected_lang == detect_language(text, detect_api_key, det_api)  \* 365
      IN  IF NeedsTranslation(detected_lang)                               \* 366
          THEN \E tr_api \in {"ok", "fail"} :
                 LET translated_text == translate_text(text, detected_lang, tr_api) \* 367
                 IN  IF translated_text = "null"                           \* 368
                     THEN /\ ReturnEarly([Skip(m, o, "translate_null")
                                            EXCEPT !.det = detected_lang, !.tr = "null",
                                                   !.ocr = ocr, !.lookup = lookup])
                          /\ UNCHANGED history
                     ELSE \E wr \in IOResults :                            \* 370-373
                            IF wr # "ok"
                            THEN /\ ReturnEarly([Skip(m, o, "local_write_fail")
                                            EXCEPT !.det = detected_lang, !.tr = "ok",
                                                   !.ocr = ocr, !.lookup = lookup])
                                 /\ UNCHANGED history
                            ELSE \E up \in {"url", "none"}, rp \in {"ok", "fail"} :
                                   LET r == _upload_to_archive(archive_enabled, up, rp) \* 377
                                   IN  /\ cur' = [m |-> m, o |-> o, stage |-> "commit",
                                                  why |-> "translated", ocr |-> ocr,
                                                  lookup |-> lookup,
                                                  det |-> detected_lang, tr |-> "ok",
                                                  up |-> IF r.uploaded THEN "ok"
                                                         ELSE IF r.attempted THEN "fail"
                                                         ELSE "disabled",
                                                  replied |-> r.replied]
                                       /\ pc' = "save_mention"
                                       /\ replies' = IF r.replied
                                                     THEN [replies EXCEPT ![o] = OneMore(@)]
                                                     ELSE replies
                                       /\ UNCHANGED crashed_after_reply
          ELSE /\ cur' = [Idle EXCEPT !.m = m, !.o = o, !.stage = "commit",   \* 382-386
                                      !.why = "no_translation_needed",
                                      !.ocr = ocr, !.lookup = lookup,
                                      !.det = detected_lang]
               /\ pc' = "save_mention"
               /\ UNCHANGED <<replies, crashed_after_reply>>

\* What the source has for the media of an original: a photo or video URL,
\* or nothing that get_media_url finds (also when the request fails,
\* twitter_client.py:277-279).
MediaAnswers == {"url", "none"}

\* Mutant of get_cached_media_url: only the cache is looked at, and it holds
\* nothing for an original that is handled for the first time.
CacheLookupOnly(media) == "none"

\* twitter_client.py:198-279: the URL of the first photo or video of the
\* tweet, None when there is none or the request failed.
get_media_url(media) == media

\* twitter_client.py:280-283: "Simply use the cache from get_media_url"
get_cached_media_url(media) == get_media_url(media)

\* bot.py:344-362 with ocr_reader.py:21-58: how the call of extract_text
\* went.  "dl_fail": the download or readtext raised; "lang_fail": the
\* detection or the translation inside extract_text gave nothing; "na": it
\* was not called, or each of its steps gave a result.
ocr_outcome(url, dl, calls) ==
    IF ~url THEN "na"
    ELSE IF dl # "ok" THEN "dl_fail"
    ELSE IF calls.det = "null" \/ calls.tr = "null" THEN "lang_fail"
    ELSE "na"

\* bot.py:334-340: the lookup process_mention makes for an original with
\* media; known: the author's id is in processed_accounts.
media_url_for(known, media) ==
    IF known THEN get_cached_media_url(media) ELSE get_media_url(media)

\* bot.py:327-362: the text of the original, or the text read from its image.
\* The first time an author is seen save_processed_account is called (342).
ExtractThenPublish(m, o) ==
    IF ~original_tweet[o].attachments                                     \* 331
    THEN /\ UNCHANGED <<processed_accounts, processed_accounts_file>>
         /\ DetectTranslatePublish(m, o, original_tweet[o].text, "na", NoLookup) \* 328
    ELSE \E media \in MediaAnswers, acc_io \in IOResults,
            dl \in {"ok", "fail"}, det1 \in {"ok", "fail"}, tr1 \in {"ok", "fail"} :
           LET known == AuthorOf(o) \in processed_accounts               \* 334
               image_url == media_url_for(known, media)                  \* 334-340
               url == image_url = "url"                                   \* 344
               acc == IF known
                      THEN [mem |-> processed_accounts, file |-> processed_accounts_file]
                      ELSE save_processed_account(processed_accounts,
                               processed_accounts_file, AuthorOf(o), acc_io) \* 342
               ocr_calls == extract_text_calls(original_tweet[o].text,
                                               detect_api_key, dl, det1, tr1)
               ocr_text == IF url                                         \* 344-347
                           THEN extract_text(original_tweet[o].text, detect_api_key,
                                             dl, det1, tr1)
                           ELSE "null"
           IN  /\ processed_accounts' = acc.mem
               /\ processed_accounts_file' = acc.file
               /\ DetectTranslatePublish(m, o, TextOf(o, url, ocr_text),
                                          \* the download (or the OCR) failed
                                          ocr_outcome(url, dl, ocr_calls),
                                          [account |-> IF known THEN "known" ELSE "new",
                                           media |-> media, image_url |-> image_url])

\* bot.py:295-377: one call of process_mention from the loop of run (474-475),
\* up to the point where it either returns or is about to record the two ids.
\* Mentions are taken in the order the source lists them (newest first).
process_mention ==
    /\ pc = "mentions"
    /\ new_mentions # {}
    /\ LET m == Max(new_mentions)
           o == RefOf(m)
       IN  /\ new_mentions' = new_mentions \ {m}
           /\ IF AlreadyProcessed(m)                                      \* 301-303
              THEN /\ ReturnEarly(Skip(m, o, "mention_done"))
                   /\ UNCHANGED <<processed_accounts, processed_accounts_file, history>>
              ELSE IF o = NoRef                                           \* 306-313
              THEN /\ ReturnEarly(Skip(m, o, "no_ref"))
                   /\ UNCHANGED <<processed_accounts, processed_accounts_file, history>>
              ELSE IF AlreadyProcessed(o)                                 \* 317-319
              THEN /\ ReturnEarly(Skip(m, o, "original_done"))
                   /\ UNCHANGED <<processed_accounts, processed_accounts_file, history>>
              ELSE \E tw \in {"ok", "none"} :                             \* 322
                     IF tw = "none"                                       \* 323-325
                     THEN /\ ReturnEarly(Skip(m, o, "no_tweet"))
                          /\ UNCHANGED <<processed_accounts, processed_accounts_file, history>>
                     ELSE ExtractThenPublish(m, o)
    /\ UNCHANGED <<config, processed_mentions, processed_mentions_file,
                   pending_tweets, pending_tweets_file,
                   downloaded_tweets, downloaded_tweets_file>>
    /\ UNCHANGED retry
    /\ UNCHANGED <<repostVars, call>>

\* bot.py:380 / 385: self.save_processed_mention(mention.id)
save_mention_id ==
    /\ pc = "save_mention"
    /\ \E io \in IOResults :
         LET r == save_processed_mention(processed_mentions,
                                         processed_mentions_file, cur.m, io)
         IN  /\ processed_mentions' = r.mem
             /\ processed_mentions_file' = r.file
    /\ pc' = "save_original"
    /\ UNCHANGED <<config, processed_accounts, processed_accounts_file,
                   pending_tweets, pending_tweets_file,
                   downloaded_tweets, downloaded_tweets_file,
                   new_mentions, cur, history>>
    /\ UNCHANGED retry
    /\ UNCHANGED <<repostVars, call>>

\* bot.py:381 / 386: self.save_processed_mention(original_tweet_id)
save_original_id ==
    /\ pc = "save_original"
    /\ \E io \in IOResults :
         LET r == save_processed_mention(processed_mentions,
                                         processed_mentions_file, cur.o, io)
         IN  /\ processed_mentions' = r.mem
             /\ processed_mentions_file' = r.file
             /\ crashed_after_reply' =
                    IF crashed_after_reply \in FileSet(r.file)
                    THEN NoRef ELSE crashed_after_reply
    /\ pc' = "return"
    /\ UNCHANGED <<config, processed_accounts, processed_accounts_file,
                   pending_tweets, pending_tweets_file,
                   downloaded_tweets, downloaded_tweets_file,
                   new_mentions, cur, replies>>
    /\ UNCHANGED retry
    /\ UNCHANGED <<repostVars, call>>

\* bot.py:474-475: process_mention has returned; the for loop goes on
process_mention_returns ==
    /\ pc = "return"
    /\ pc' = "mentions"
    /\ cur' = Idle
    /\ UNCHANGED <<config, ledgers, new_mentions, history>>
    /\ UNCHANGED retry
    /\ UNCHANGED <<repostVars, call>>

\* bot.py:477-482: every new mention was handled; sleep, then the next cycle
sleep ==
    /\ pc = "mentions"
    /\ new_mentions = {}
    /\ pc' = "pending"
    /\ UNCHANGED <<config, ledgers, new_mentions, cur, history>>
    /\ UNCHANGED retry
    /\ UNCHANGED <<repostVars, call>>

\* The exceptions that can come up in a statement of a run loop outside the
\* try blocks of the calls it makes: a rate-limit answer, or anything else.
\* (KeyboardInterrupt is no Exception: it is the kill / interrupt action.)
LoopErrors == {"TooManyRequests", "Exception"}

\* Mutant of Caught: the loops have no "except Exception" clause.
CaughtRateLimitOnly(error) == error = "TooManyRequests"

\* bot.py:484, xBot.py:189 and 195: "except Exception" (and, in xBot.py,
\* "except tweepy.errors.TooManyRequests" before it) around the body of the
\* while loop.
Caught(error) == error \in {"TooManyRequests", "Exception"}

\* bot.py:448-486: an exception comes up in a statement of the loop body
\* itself (process_pending_tweets, get_mentions and process_mention catch
\* their own).  Caught: it is logged and run sleeps 60 s (485-486).  Not
\* caught: it leaves run and main (main.py:33-35) and the process ends.
cycle_error ==
    /\ pc \in {"pending", "fetch", "mentions"}
    /\ \E error \in LoopErrors :
         pc' = IF Caught(error) THEN "error_wait" ELSE "crashed"
    /\ new_mentions' = {}
    /\ cur' = Idle
    /\ retry' = NoRetry
    /\ UNCHANGED <<config, ledgers, history>>
    /\ UNCHANGED <<repostVars, call>>

\* bot.py:486, 447: the sleep is over and the while loop starts a new cycle
next_cycle_after_error ==
    /\ pc = "error_wait"
    /\ pc' = "pending"
    /\ UNCHANGED <<config, ledgers, new_mentions, cur, history>>
    /\ UNCHANGED retry
    /\ UNCHANGED <<repostVars, call>>

\* The process is killed, at any point of the loop: everything it held in
\* memory is gone, the files stay as they are.  os.replace (201) is atomic,
\* so a kill inside save_processed_mention is a kill before or after it as
\* far as the files are concerned.
kill ==
    /\ pc \notin {"boot", "off"}
    /\ pc' = "boot"
    /\ processed_mentions' = {}
    /\ processed_accounts' = {}
    /\ pending_tweets' = {}
    /\ downloaded_tweets' = {}
    /\ new_mentions' = {}
    /\ cur' = Idle
    /\ retry' = NoRetry
    /\ crashed_after_reply' = IF /\ pc = "save_mention"
                                 /\ cur.replied
                                 /\ crashed_after_reply = NoRef
                              THEN cur.o
                              ELSE crashed_after_reply
    /\ UNCHANGED <<config, processed_mentions_file, processed_accounts_file,
                   pending_tweets_file, downloaded_tweets_file, replies>>
    /\ UNCHANGED <<repostVars, call>>

\* bot.py:51-59: the process is started again and __init__ loads every
\* ledger from its file; run then starts its first cycle.
restart ==
    /\ pc = "boot"
    /\ \E cursor_file \in {NoRef, 1} :
         LET cursor == _load_last_processed_id(cursor_file)      \* 51
             mentions == load_ledger(processed_mentions_file)    \* 56
             downloaded == load_ledger(downloaded_tweets_file)   \* 57
             pending == load_ledger(pending_tweets_file)         \* 58
             accounts == load_ledger(processed_accounts_file)    \* 59
         IN  IF \/ cursor.raised \/ mentions.raised \/ downloaded.raised
                \/ pending.raised \/ accounts.raised
             THEN \* __init__ fails, main re-raises (main.py:33-35)
                  /\ pc' = "crashed"
                  /\ UNCHANGED <<processed_mentions, processed_accounts,
                                 pending_tweets, downloaded_tweets>>
             ELSE /\ processed_mentions' = mentions.ids
                  /\ processed_accounts' = accounts.ids
                  /\ pending_tweets' = pending.ids
                  /\ downloaded_tweets' = downloaded.ids
                  /\ pc' = "pending"
    /\ UNCHANGED <<config, processed_mentions_file, processed_accounts_file,
                   pending_tweets_file, downloaded_tweets_file,
                   new_mentions, cur, history>>
    /\ UNCHANGED retry
    /\ UNCHANGED <<repostVars, call>>

Next ==
    \/ process_pending_tweets
    \/ get_mentions
    \/ process_mention
    \/ save_mention_id
    \/ save_original_id
    \/ process_mention_returns
    \/ sleep
    \/ cycle_error
    \/ next_cycle_after_error
    \/ kill
    \/ restart

Spec == Init /\ [][Next]_vars

\* bot.py:447-486: run is sequential code, so whichever statement of the
\* loop is next is executed unless the process is killed first.
LoopStep ==
    \/ process_pending_tweets
    \/ get_mentions
    \/ process_mention
    \/ save_mention_id
    \/ save_original_id
    \/ process_mention_returns
    \/ sleep
    \/ next_cycle_after_error

SpecFair == Spec /\ WF_vars(LoopStep)

TypeOK ==
    /\ processed_mentions \subseteq Ids
    /\ pc \in {"off", "boot", "pending", "fetch", "mentions", "save_mention",
              "save_original", "return", "error_wait"}
    /\ \A o \in Originals : replies[o] \in 0..2
    /\ processed_mentions_file \in [Ids -> 0..2]
    /\ new_mentions \subseteq Mentions
    /\ latest \in TargetTweets \cup {NoRef}
    /\ last_processed_id \in TargetTweets \cup {NoRef}
    /\ last_processed_id_file \in TargetTweets \cup {NoRef}
    /\ rpc \in {"off", "check", "sleep", "error_wait", "down"}
    /\ call.fn \in {"off", "none", "prepare_tweet", "truncate_tweet", "extract_text",
                  "truncate_tweet_max_length", "_process_tweet",
                  "rate_limit_wait", "rate_limit_wait_1_0", "kill_during_save"}
    /\ iter.published \in {"na", "None", "translation"}
    /\ \A t \in TargetTweets : posts[t] \in 0..2

\* ------------------------------------------- TwitterTranslationBot (xBot.py)

\* xBot.py:55-61.  The content of last_processed_id.txt after the call; an
\* IOError is logged and swallowed.
_save_last_processed_id(file, tweet_id, io) ==
    IF io = "ok" THEN tweet_id ELSE file

\* xBot.py:63-71
_read_last_processed_id(file) == file

\* xBot.py:164-171: the text handed to create_tweet.  A translation that is
\* None is formatted into the f-string as the word "None".
RepostText(translated_text) ==
    IF translated_text = "null" THEN "None" ELSE "translation"

\* xBot.py:170-171: if len(repost_text) > 280: repost_text[:277] + "..."
repost_max == 280
repost_keep == 277

\* the code the detection service answers for a text in that language
CodeOf(lang) == IF lang = "fr" THEN <<"f", "r">> ELSE <<"e", "n">>

\* xBot.py:163-171: the text handed to create_tweet
repost_text(detected_language, translated_text) ==
    LET body == IF translated_text.none THEN <<"N", "o", "n", "e">>
                ELSE translated_text.s
        t == TranslatedFrom \o target_username \o <<" ">>
             \o LanguageTag(detected_language) \o BlankLine \o body
    IN  IF Len(t) > repost_max
        THEN Str(SubSeq(t, 1, repost_keep) \o Ellipsis)
        ELSE Str(t)

\* An iteration of run that ends without touching the cursor.  text is what
\* was handed to create_tweet (NoText: create_tweet was not called).
NothingDone(tweet, det, tr, post, translated, text) ==
    /\ iter' = [tweet |-> tweet, det |-> det, tr |-> tr, post |-> post,
                published |-> "na", advanced |-> FALSE,
                translated |-> translated, text |-> text]
    /\ rpc' = "sleep"                                            \* 187
    /\ UNCHANGED <<last_processed_id, last_processed_id_file, posts>>

\* The cursor is set to the tweet, in the file (unless the write fails) and
\* in the variable of run.
Advance(tweet, det, tr, post, published, translated, text, io) ==
    /\ iter' = [tweet |-> tweet, det |-> det, tr |-> tr, post |-> post,
                published |-> published, advanced |-> TRUE,
                translated |-> translated, text |-> text]
    /\ last_processed_id_file' =
           _save_last_processed_id(last_processed_id_file, tweet, io)
    /\ last_processed_id' = tweet

InitRepost ==
    /\ archive_enabled = TRUE
    /\ detect_api_key = TRUE
    /\ original_tweet = [o \in Originals |-> [text |-> "fr", attachments |-> FALSE]]
    /\ processed_mentions_file = EmptyFile(Ids)
    /\ processed_mentions = {}
    /\ processed_accounts_file = EmptyFile(Authors)
    /\ processed_accounts = {}
    /\ pending_tweets_file = EmptyFile(PendingIds)
    /\ pending_tweets = {}
    /\ downloaded_tweets_file = EmptyFile(Originals)
    /\ downloaded_tweets = {}
    /\ pc = "off"                  \* the archive bot is not deployed
    /\ new_mentions = {}
    /\ cur = Idle
    /\ retry = NoRetry
    /\ replies = [o \in Originals |-> 0]
    /\ crashed_after_reply = NoRef
    /\ tweet_text \in [TargetTweets -> {"fr", "en"}]
    /\ latest = NoRef
    /\ last_processed_id_file = NoRef
    /\ last_processed_id = _read_last_processed_id(last_processed_id_file) \* 138
    /\ rpc = "check"
    /\ iter = NoIteration
    /\ posts = [t \in TargetTweets |-> 0]
    /\ call = LibraryOff

\* The monitored account publishes its next post.
target_posts ==
    /\ rpc # "off"
    /\ latest < NumTweets
    /\ latest' = latest + 1
    /\ UNCHANGED <<tweet_text, last_processed_id, last_processed_id_file,
                   rpc, iter, posts>>
    /\ UNCHANGED <<botVars, call>>

\* xBot.py:141-187: one iteration of the while loop of run.
run_iteration ==
    /\ rpc = "check"
    /\ \E fetched \in {"ok", "none"} :                           \* 143, 73-116
         LET tweet == IF fetched = "ok" THEN latest ELSE NoRef
         IN  IF tweet = NoRef \/ tweet = last_processed_id       \* 145, 184-185
             THEN NothingDone(NoRef, "na", "na", "na", NoText, NoText)
             ELSE \E det \in {"ok", "raise"} :                   \* 150
                    IF det = "raise"                             \* 181-183
                    THEN NothingDone(tweet, "raise", "na", "na", NoText, NoText)
                    ELSE IF tweet_text[tweet] = "en"             \* 151-155
                    THEN \E io \in IOResults :
                           /\ Advance(tweet, "en", "na", "na", "na", NoText, NoText, io)
                           /\ rpc' = "check"                     \* 155: continue
                           /\ UNCHANGED posts
                    ELSE \E tr \in {"ok", "null", "raise"} :     \* 157-161
                           IF tr = "raise"                       \* 181-183
                           THEN NothingDone(tweet, tweet_text[tweet], "raise", "na",
                                            NoText, NoText)
                           ELSE \E translated_text \in
                                     {t \in Translations : t.none <=> tr = "null"},
                                   post \in {"ok", "forbidden", "rate_limit", "error"} :
                                  LET text == repost_text(CodeOf(tweet_text[tweet]),
                                                          translated_text) \* 163-171
                                  IN  IF post = "ok"             \* 173-177
                                      THEN \E io \in IOResults :
                                             /\ Advance(tweet, tweet_text[tweet], tr, "ok",
                                                        RepostText(tr), translated_text,
                                                        text, io)
                                             /\ rpc' = "sleep"   \* 187
                                             /\ posts' = [posts EXCEPT ![tweet] = OneMore(@)]
                                      ELSE NothingDone(tweet, tweet_text[tweet], tr, post,
                                                       translated_text, text) \* 178-183
    /\ UNCHANGED <<tweet_text, latest>>
    /\ UNCHANGED <<botVars, call>>

\* xBot.py:187: time.sleep(self.check_interval) is over
check_interval_over ==
    /\ rpc = "sleep"
    /\ rpc' = "check"
    /\ UNCHANGED <<tweet_text, latest, last_processed_id, last_processed_id_file,
                   iter, posts>>
    /\ UNCHANGED <<botVars, call>>

\* xBot.py:141-197: an exception comes up in a statement of the loop body
\* outside the inner try (148-183).  Caught: run waits until the rate limit
\* is reset, at least 60 s (189-193), or 60 s (195-197).  Not caught: it
\* leaves run, main logs "Fatal error" (208-209) and the process ends.
loop_error ==
    /\ rpc = "check"
    /\ \E error \in LoopErrors :
         rpc' = IF Caught(error) THEN "error_wait" ELSE "crashed"
    /\ iter' = NoIteration
    /\ UNCHANGED <<tweet_text, latest, last_processed_id, last_processed_id_file,
                   posts>>
    /\ UNCHANGED <<botVars, call>>

\* xBot.py:193 / 197, 140: the wait is over and the while loop goes round
next_check_after_error ==
    /\ rpc = "error_wait"
    /\ rpc' = "check"
    /\ UNCHANGED <<tweet_text, latest, last_processed_id, last_processed_id_file,
                   iter, posts>>
    /\ UNCHANGED <<botVars, call>>

\* xBot.py:199-209: the operator interrupts the bot (or it is killed) ...
interrupt ==
    /\ rpc \notin {"down", "off"}
    /\ rpc' = "down"
    /\ last_processed_id' = NoRef
    /\ iter' = NoIteration
    /\ UNCHANGED <<tweet_text, latest, last_processed_id_file, posts>>
    /\ UNCHANGED <<botVars, call>>

\* ... and starts it again: run reads the cursor from its file (138).
run_starts ==
    /\ rpc = "down"
    /\ rpc' = "check"
    /\ last_processed_id' = _read_last_processed_id(last_processed_id_file)
    /\ UNCHANGED <<tweet_text, latest, last_processed_id_file, iter, posts>>
    /\ UNCHANGED <<botVars, call>>

NextRepost ==
    \/ target_posts
    \/ run_iteration
    \/ check_interval_over
    \/ loop_error
    \/ next_check_after_error
    \/ interrupt
    \/ run_starts

SpecRepost == InitRepost /\ [][NextRepost]_vars

\* ------------------------------------ library functions called on their own

\* Neither bot is deployed; the functions are called from a script.
InitLibrary ==
    /\ archive_enabled = TRUE
    /\ detect_api_key = TRUE
    /\ original_tweet = [o \in Originals |-> [text |-> "fr", attachments |-> FALSE]]
    /\ processed_mentions_file = EmptyFile(Ids)
    /\ processed_mentions = {}
    /\ processed_accounts_file = EmptyFile(Authors)
    /\ processed_accounts = {}
    /\ pending_tweets_file = EmptyFile(PendingIds)
    /\ pending_tweets = {}
    /\ downloaded_tweets_file = EmptyFile(Originals)
    /\ downloaded_tweets = {}
    /\ pc = "off"
    /\ new_mentions = {}
    /\ cur = Idle
    /\ retry = NoRetry
    /\ replies = [o \in Originals |-> 0]
    /\ crashed_after_reply = NoRef
    /\ RepostAtRest
    /\ call = NoCall

\* translation_service.py:96-117: prepare_tweet(original_text, lang), with
\* the answer of translate_text chosen by the translation service.
call_prepare_tweet ==
    /\ call.fn # "off"
    /\ \E detected_language \in LanguageCodes, translated_text \in Translations :
         call' = [NoCall EXCEPT !.fn = "prepare_tweet",
                                !.lang = detected_language,
                                !.arg = translated_text,
                                !.out = prepare_tweet(detected_language, translated_text)]
    /\ UNCHANGED <<botVars, repostVars>>

\* twitter_client.py:119: TweetProcessor.truncate_tweet(text)
call_truncate_tweet ==
    /\ call.fn # "off"
    /\ \E n \in {0} \cup {max_length + d : d \in -Slack..Slack} :
         call' = [NoCall EXCEPT !.fn = "truncate_tweet",
                                !.arg = Str(Chars(n)),
                                !.out = Str(truncate_tweet(Chars(n), max_length))]
    /\ UNCHANGED <<botVars, repostVars>>

\* The largest max_length, and the longest text beyond it, that
\* truncate_tweet is called with when the limit is given.
MaxLimit == 4

\* tweet_processor.py:62: TweetProcessor.truncate_tweet(text, max_length)
\* with the second argument given
call_truncate_tweet_max_length ==
    /\ call.fn # "off"
    /\ \E limit \in 0..MaxLimit, n \in 0..(MaxLimit + 2) :
         call' = [NoCall EXCEPT !.fn = "truncate_tweet_max_length",
                                !.limit = limit,
                                !.arg = Str(Chars(n)),
                                !.out = Str(truncate_tweet(Chars(n), limit))]
    /\ UNCHANGED <<botVars, repostVars>>

\* The largest id _process_tweet is called with: ids of one and of two
\* digits.
MaxMentionId == 12

\* Python's str() of a positive int: its decimal digits.
RECURSIVE DecimalString(_)
DecimalString(n) ==
    IF n < 10 THEN <<n>> ELSE DecimalString(n \div 10) \o <<n % 10>>

\* Python's <= on two str: the first place where they differ decides, and a
\* proper prefix is the smaller one.
RECURSIVE string_le(_, _)
string_le(a, b) ==
    IF a = <<>> THEN TRUE
    ELSE IF b = <<>> THEN FALSE
    ELSE IF Head(a) # Head(b) THEN Head(a) < Head(b)
    ELSE string_le(Tail(a), Tail(b))

\* bot.py:91: if self.last_processed_id and str(mention.id) <= self.last_processed_id
\* loaded_id is self.last_processed_id, the text read from
\* last_processed_id.txt (51, 61-67); <<>> for None.
process_tweet_skips(loaded_id, mention_id) ==
    /\ loaded_id # <<>>
    /\ string_le(DecimalString(mention_id), loaded_id)

\* bot.py:87-130: _process_tweet(mention) called twice with the same
\* mention by a bot whose last_processed_id.txt held cursor (0: no file)
\* when it was constructed (51).  stages: whether the first call got as far
\* as _save_last_processed_id (127), which writes the file (69-72) and
\* leaves self.last_processed_id as it was.
call_process_tweet ==
    /\ call.fn # "off"
    /\ \E cursor \in 0..MaxMentionId, mention_id \in 1..MaxMentionId,
          stages \in {"ok", "raise"} :
         LET loaded_id == IF cursor = 0 THEN <<>> ELSE DecimalString(cursor)
             first == process_tweet_skips(loaded_id, mention_id)
             second == process_tweet_skips(loaded_id, mention_id)
         IN  call' = [NoCall EXCEPT !.fn = "_process_tweet",
                                    !.cursor = cursor,
                                    !.id = mention_id,
                                    !.skipped = <<first, second>>,
                                    !.cursor_file =
                                        IF ~first /\ stages = "ok"
                                        THEN mention_id ELSE cursor]
    /\ UNCHANGED <<botVars, repostVars>>

\* test_ocr.py:54-60: OCRReader.extract_text(image_url) on an image whose
\* text is French or English
call_extract_text ==
    /\ call.fn # "off"
    /\ \E image \in {"fr", "en"}, key \in BOOLEAN, fails_at \in ExtractSteps,
          det_api \in {"ok", "fail"}, tr_api \in {"ok", "fail"} :
         LET dl == IF fails_at = "none" THEN "ok" ELSE "fail"
             r == extract_text_calls(image, key, dl, det_api, tr_api)
         IN  call' = [NoCall EXCEPT !.fn = "extract_text", !.image = image,
                                    !.det = r.det, !.tr = r.tr, !.text = r.text,
                                    !.fails_at = fails_at,
                                    !.temp_created = temp_file_created(fails_at),
                                    !.temp_left = temp_file_left(fails_at)]
    /\ UNCHANGED <<botVars, repostVars>>

\* xBot.py:191, xBot_1_0.py:121: int(time.time()) when the handler runs
Now == 1000

\* xBot.py:191: the shortest wait of the rate-limit handler, in seconds
minimum_wait == 60

\* The x-rate-limit-reset header of the 429 answer: missing, or a time
\* before, at or after now, and around now + minimum_wait.
ResetHeaders ==
    {[present |-> FALSE, value |-> 0]}
    \cup {[present |-> TRUE, value |-> v] :
            v \in {0} \cup {Now + d : d \in -Slack..Slack}
                      \cup {Now + minimum_wait + d : d \in -Slack..Slack}}

Max2(a, b) == IF a >= b THEN a ELSE b

\* xBot.py:189-193: the wait of "except tweepy.errors.TooManyRequests"
rate_limit_wait(reset, now) ==
    LET reset_time == IF reset.present THEN reset.value ELSE 0   \* 190: get(.., 0)
    IN  [raised |-> FALSE, seconds |-> Max2(reset_time - now, minimum_wait)]

\* xBot_1_0.py:119-124: the same handler of translate_and_repost.  Without
\* the header, int(None) raises TypeError inside the handler and no sleep
\* is made.
rate_limit_wait_1_0(reset, now) ==
    IF ~reset.present THEN [raised |-> TRUE, seconds |-> 0]       \* 120
    ELSE [raised |-> FALSE, seconds |-> Max2(reset.value - now, 0)] \* 121

\* xBot.py:189-193 entered with a 429 answer carrying any reset header
call_rate_limit_wait ==
    /\ call.fn # "off"
    /\ \E reset \in ResetHeaders :
         call' = [NoCall EXCEPT !.fn = "rate_limit_wait", !.reset = reset,
                                !.now = Now,
                                !.wait = rate_limit_wait(reset, Now)]
    /\ UNCHANGED <<botVars, repostVars>>

\* xBot_1_0.py:119-124 entered with a 429 answer carrying any reset header
call_rate_limit_wait_1_0 ==
    /\ call.fn # "off"
    /\ \E reset \in ResetHeaders :
         call' = [NoCall EXCEPT !.fn = "rate_limit_wait_1_0", !.reset = reset,
                                !.now = Now,
                                !.wait = rate_limit_wait_1_0(reset, Now)]
    /\ UNCHANGED <<botVars, repostVars>>

\* The ledgers that only grow, and how their save method writes the file
AppendOnlyLedgers == {"processed_mentions", "downloaded_tweets", "processed_accounts"}

\* bot.py:190-201 (temporary file, then os.replace); 237 and 288
\* (open(file, 'a'), then f.write)
write_mechanism(ledger) ==
    IF ledger = "processed_mentions" THEN "replace" ELSE "append"

\* Where a kill can fall inside a write: before anything reached the file
\* system, while the bytes are being written, after the last step.
KillPoints == {"before", "writing", "done"}

\* bot.py:190-201, killed.  What the ledger file holds afterwards: until
\* os.replace only the .tmp file was touched.
replace_killed(file, id, at) ==
    IF at = "done" THEN [ids |-> file \cup {id}, torn |-> FALSE]   \* 201
    ELSE [ids |-> file, torn |-> FALSE]                            \* 190-198

\* bot.py:237-238 and 288-289, killed.  The bytes go to the ledger file
\* itself: a kill while they are written leaves the old lines and a part
\* of the new one (torn).
append_killed(file, id, at) ==
    IF at = "done" THEN [ids |-> file \cup {id}, torn |-> FALSE]
    ELSE IF at = "writing" THEN [ids |-> file, torn |-> TRUE]
    ELSE [ids |-> file, torn |-> FALSE]

\* A save method of TwitterBot is killed while it writes id to its ledger
\* file, which held the ids of file.
kill_during_save ==
    /\ call.fn # "off"
    /\ \E ledger \in AppendOnlyLedgers, file \in SUBSET (1..2), id \in 1..2,
          at \in KillPoints :
         /\ id \notin file
         /\ call' = [NoCall EXCEPT
                       !.fn = "kill_during_save", !.ledger = ledger,
                       !.mechanism = write_mechanism(ledger),
                       !.file = file, !.id = id, !.at = at,
                       !.left = IF write_mechanism(ledger) = "replace"
                                THEN replace_killed(file, id, at)
                                ELSE append_killed(file, id, at)]
    /\ UNCHANGED <<botVars, repostVars>>

NextLibrary ==
    \/ kill_during_save
    \/ call_prepare_tweet
    \/ call_truncate_tweet
    \/ call_truncate_tweet_max_length
    \/ call_process_tweet
    \/ call_extract_text
    \/ call_rate_limit_wait
    \/ call_rate_limit_wait_1_0

\* One deployment runs the archive bot (main.py), or the direct-repost bot
\* (xBot.py), or calls the library functions from a script.
InitAll == Init \/ InitRepost \/ InitLibrary

NextAll == Next \/ NextRepost \/ NextLibrary

SpecAll == InitAll /\ [][NextAll]_vars

\* ------------------------------------------------------------------ claims

InLedger(id) == id \in processed_mentions \/ id \in FileSet(processed_mentions_file)

\* C1 (Idempotence).  In any cycle of run, a mention whose id is already in
\* processed_mentions is not handed to process_mention, and a process_mention
\* call for a mention whose id or whose original's id is in the ledger
\* returns early: no upload, no reply, no ledger change.
C1_Idempotence ==
    [][ /\ (pc = "fetch" /\ pc' = "mentions")
             => new_mentions' \cap processed_mentions = {}
        /\ \A m \in Mentions :
             ( /\ pc = "mentions"
               /\ cur'.m = m
               /\ (m \in processed_mentions \/ RefOf(m) \in processed_mentions) )
             => /\ replies' = replies
                /\ cur'.stage = "skip"
                /\ cur'.up = "na"
                /\ ~cur'.replied
                /\ processed_mentions' = processed_mentions
                /\ processed_mentions_file' = processed_mentions_file
      ]_vars

\* A second mention of an original that was replied to has been skipped.
C1_Witness ==
    /\ pc = "return"
    /\ cur.why = "original_done"
    /\ replies[cur.o] = 1

\* C2 (No-duplicate-reply).  Over any sequence of cycles at most one reply is
\* posted for each original.
C2_NoDuplicateReply == \A o \in Originals : replies[o] <= 1

\* A second reply has been posted for the same original.
C2_Witness == \E o \in Originals : replies[o] = 2

\* C3 (Ledger durability).  Killed right after save_processed_mention(id) has
\* returned, the restarted process finds id in the ledger it loads; killed
\* before the call, it does not find it.
C3_LedgerDurability ==
    [][ /\ (pc = "save_original" /\ pc' = "boot")
             => cur.m \in FileSet(processed_mentions_file')
        /\ (pc = "return" /\ cur.stage = "commit" /\ pc' = "boot")
             => cur.o \in FileSet(processed_mentions_file')
        /\ (pc = "save_mention" /\ pc' = "boot")
             => /\ cur.m \notin FileSet(processed_mentions_file')
                /\ cur.o \notin FileSet(processed_mentions_file')
      ]_vars

\* save_processed_mention(mention.id) has returned and the id is in no file.
C3_Witness ==
    /\ pc = "save_original"
    /\ cur.m \in processed_mentions
    /\ cur.m \notin FileSet(processed_mentions_file)

\* C4 (crash between action and ledger update is safe to retry).  When the
\* process was killed after the reply for an original was posted and before
\* the ids were written, no second reply is posted for that original.
C4_CrashRetryPostsNoSecondReply ==
    crashed_after_reply # NoRef => replies[crashed_after_reply] <= 1

\* After such a kill the restarted process has replied to the original again.
C4_Witness ==
    /\ crashed_after_reply # NoRef
    /\ replies[crashed_after_reply] = 2
    /\ pc = "save_mention"

\* C5.  An id is added to processed_mentions only after the publish/archive
\* step for it has finished successfully, or the item was found to need no
\* translation: where process_mention has recorded an id, its upload
\* succeeded or it took the "no translation needed" branch.
C5_MarkedOnlyAfterCommit ==
    ( /\ pc \in {"save_original", "return"}
      /\ cur.stage = "commit"
      /\ (InLedger(cur.m) \/ InLedger(cur.o)) )
    => (cur.why = "no_translation_needed" \/ cur.up = "ok")

\* Both ids were recorded although archiving is switched off.
C5_Witness ==
    /\ pc = "return"
    /\ cur.stage = "commit"
    /\ cur.up = "disabled"
    /\ InLedger(cur.m)
    /\ InLedger(cur.o)

\* C6 (append-only).  No operation of the loop removes an id from
\* processed_mentions, downloaded_tweets or processed_accounts, neither from
\* the in-memory set nor from the file.
C6_AppendOnly ==
    [][ (pc # "boot" /\ pc' # "boot")
        => /\ processed_mentions \subseteq processed_mentions'
           /\ FileSet(processed_mentions_file) \subseteq FileSet(processed_mentions_file')
           /\ processed_accounts \subseteq processed_accounts'
           /\ FileSet(processed_accounts_file) \subseteq FileSet(processed_accounts_file')
           /\ downloaded_tweets \subseteq downloaded_tweets'
           /\ FileSet(downloaded_tweets_file) \subseteq FileSet(downloaded_tweets_file')
      ]_vars

\* The mention id, added to the in-memory set by a save whose write failed,
\* is gone from it after the save of the original's id reloaded the file.
C6_Witness ==
    /\ pc = "return"
    /\ cur.stage = "commit"
    /\ cur.m \notin processed_mentions
    /\ cur.o \in processed_mentions

\* C7.  If the archive upload fails (no URL, an exception, or archiving is
\* disabled), the process_mention call posts no reply.
C7_NoReplyWithoutArchive ==
    [][ \A m \in Mentions :
          (pc = "mentions" /\ cur'.m = m /\ cur'.up \in {"fail", "disabled"})
          => (replies' = replies /\ ~cur'.replied)
      ]_vars

\* An upload failed and the original still has no reply.
C7_Witness ==
    /\ pc = "return"
    /\ cur.why = "translated"
    /\ cur.up = "fail"
    /\ replies[cur.o] = 0

\* C8.  If the archive upload fails, neither the mention id nor the original
\* id is in processed_mentions when process_mention returns.
C8_NotMarkedWhenArchiveFails ==
    (pc = "return" /\ cur.up \in {"fail", "disabled"})
    => (~InLedger(cur.m) /\ ~InLedger(cur.o))

\* The upload failed, no reply was posted, and both ids are in the file.
C8_Witness ==
    /\ pc = "return"
    /\ cur.up = "fail"
    /\ ~cur.replied
    /\ {cur.m, cur.o} \subseteq FileSet(processed_mentions_file)

\* C9.  If language detection fails (detect_language returns None), no id is
\* in processed_mentions when process_mention returns.
C9_NotMarkedWhenDetectionFails ==
    (pc = "return" /\ cur.det = "null")
    => (~InLedger(cur.m) /\ ~InLedger(cur.o))

\* Detection returned None for a French original and both ids are in the file.
C9_Witness ==
    /\ pc = "return"
    /\ cur.det = "null"
    /\ original_tweet[cur.o].text = "fr"
    /\ {cur.m, cur.o} \subseteq FileSet(processed_mentions_file)

\* The archive bot's half of C10: when translate_text returns None,
\* process_mention returns with nothing published and no id recorded.
C10_ArchiveMode ==
    (pc = "return" /\ cur.tr = "null")
    => (~InLedger(cur.m) /\ ~InLedger(cur.o) /\ ~cur.replied /\ cur.up = "na")

\* C10.  If translation fails (the translator returns None or raises), the
\* item is not marked processed and nothing is published: in archive mode no
\* id is added to processed_mentions, in direct-repost mode the iteration
\* publishes nothing and does not advance last_processed_id.
C10_NotMarkedWhenTranslationFails ==
    /\ C10_ArchiveMode
    /\ iter.tr \in {"null", "raise"} => (iter.published = "na" /\ ~iter.advanced)

\* The direct-repost bot has published "None" and moved its cursor.
C10_Witness ==
    /\ iter.tr = "null"
    /\ iter.published = "None"
    /\ iter.advanced
    /\ last_processed_id = iter.tweet
    /\ posts[iter.tweet] = 1

\* C11 (Skip-English).  Where detect_language has answered 'en' for a text,
\* translate is not invoked for it: in process_mention, in the direct-repost
\* loop and in OCRReader.extract_text (which then returns the text as read).
\* process_pending_tweets never gets as far as detecting a language.
C11_SkipEnglish ==
    /\ cur.det = "en" => cur.tr = "na"
    /\ iter.det = "en" => iter.tr = "na"
    /\ (call.fn = "extract_text" /\ call.det = "en")
       => (call.tr = "na" /\ call.text = call.image)

\* extract_text has read an English image and returned its text as it is.
C11_Witness ==
    /\ call.fn = "extract_text"
    /\ call.image = "en"
    /\ call.det = "en"
    /\ call.text = "en"

\* C12.  When the detected language is 'en' nothing is published and the
\* item is marked processed: after process_mention the mention id and the
\* original id are in processed_mentions (in memory or in the file), and the
\* direct-repost loop has set its cursor to the tweet.
C12_EnglishMarkedProcessed ==
    /\ (pc = "return" /\ cur.det = "en")
       => (~cur.replied /\ InLedger(cur.m) /\ InLedger(cur.o))
    /\ iter.det = "en"
       => (iter.published = "na" /\ iter.advanced /\ last_processed_id = iter.tweet)

\* process_mention has returned for an English original and the mention id
\* is neither in the in-memory set nor in the file.
C12_Witness ==
    /\ pc = "return"
    /\ cur.det = "en"
    /\ cur.why = "no_translation_needed"
    /\ ~InLedger(cur.m)

\* C13 (Pending-retry convergence).  After process_pending_tweets, a pending
\* id whose media was there to be downloaded is no longer in pending_tweets,
\* and a pending id whose retry failed is still in it.
C13_PendingConvergence ==
    pc = "fetch"
    => /\ \A id \in retry.media :
            id \notin pending_tweets /\ id \notin FileSet(pending_tweets_file)
       /\ \A id \in retry.attempted \ retry.media :
            id \in pending_tweets /\ id \in FileSet(pending_tweets_file)

\* The media URL of pending id 1 was found and 1 is still pending.
C13_Witness ==
    /\ pc = "fetch"
    /\ 1 \in retry.media
    /\ retry.removed = {}
    /\ 1 \in pending_tweets

\* C14.  When the download of an item's media fails during extraction,
\* process_mention ends with the item in pending_tweets and with neither id
\* in processed_mentions.
C14_DownloadFailureDefers ==
    (pc = "return" /\ cur.ocr = "dl_fail")
    => /\ cur.o \in pending_tweets
       /\ ~InLedger(cur.o)
       /\ ~InLedger(cur.m)

\* The download failed, the item is not pending and both ids are recorded.
C14_Witness ==
    /\ pc = "return"
    /\ cur.ocr = "dl_fail"
    /\ cur.o \notin pending_tweets
    /\ {cur.m, cur.o} \subseteq FileSet(processed_mentions_file)

\* the text of the sample scenario: "(fr -> en):", a blank line, "Hello world"
HelloWorldTagged == LanguageTag(<<"f", "r">>) \o BlankLine \o HelloWorld

\* C15.  For a new text-only item detected as 'fr' whose translation is
\* "Hello world", the published text is exactly the language tag, a blank
\* line and the translation, and afterwards the cursor holds the item's id;
\* prepare_tweet returns that same text.
C15_PublishedTextOfSample ==
    /\ (call.fn = "prepare_tweet" /\ call.lang = <<"f", "r">>
          /\ call.arg = Str(HelloWorld))
       => call.out = Str(HelloWorldTagged)
    /\ (iter.det = "fr" /\ iter.translated = Str(HelloWorld) /\ iter.post = "ok")
       => (iter.text = Str(HelloWorldTagged) /\ last_processed_id = iter.tweet)

\* The direct-repost loop has published the sample with its
\* "Translated from @metropoleHT " in front.
C15_Witness ==
    /\ iter.det = "fr"
    /\ iter.translated = Str(HelloWorld)
    /\ iter.post = "ok"
    /\ iter.text = Str(TranslatedFrom \o target_username \o <<" ">> \o HelloWorldTagged)
    /\ last_processed_id = iter.tweet

\* what prepare_tweet formats before it truncates (translation_service.py:114)
Formatted == LanguageTag(call.lang) \o BlankLine \o call.arg.s

\* C16.  Truncation law (length): what prepare_tweet and truncate_tweet
\* return with the default limit has at most 280 units, and so has every
\* text the direct-repost loop hands to create_tweet.
C16_LengthAtMost280 ==
    /\ (call.fn \in {"prepare_tweet", "truncate_tweet"} /\ ~call.out.none)
       => Len(call.out.s) <= 280
    /\ ~iter.text.none => Len(iter.text.s) <= 280

\* prepare_tweet has cut a text that was too long.
C16_Witness ==
    /\ call.fn = "prepare_tweet"
    /\ ~call.arg.none
    /\ Len(Formatted) > 280
    /\ Len(call.out.s) = 280

\* C17.  Truncation law (shape): when the formatted text is longer than 280
\* units, prepare_tweet returns its first 277 units followed by "...", so
\* the language tag is intact at the start; a formatted text of at most 280
\* units is returned as it is.  truncate_tweet does the same to its argument.
C17_TruncationShape ==
    /\ (call.fn = "prepare_tweet" /\ ~call.out.none) =>
         IF Len(Formatted) > 280
         THEN /\ Len(call.out.s) = 280
              /\ SubSeq(call.out.s, 278, 280) = Ellipsis
              /\ SubSeq(call.out.s, 1, 277) = SubSeq(Formatted, 1, 277)
              /\ SubSeq(call.out.s, 1, Len(LanguageTag(call.lang)))
                   = LanguageTag(call.lang)
         ELSE call.out.s = Formatted
    /\ call.fn = "truncate_tweet" =>
         IF Len(call.arg.s) > 280
         THEN /\ SubSeq(call.out.s, 278, 280) = Ellipsis
              /\ SubSeq(call.out.s, 1, 277) = SubSeq(call.arg.s, 1, 277)
         ELSE call.out = call.arg

\* prepare_tweet was given a translation whose formatted text is one unit
\* too long, and has answered.
C17_Witness ==
    /\ call.fn = "prepare_tweet"
    /\ ~call.arg.none
    /\ Len(Formatted) = 281
    /\ ~call.out.none

\* C18.  A process_mention call that reaches its two save_processed_mention
\* calls leaves both the mention id and the original id in processed_mentions,
\* or neither.
C18_BothIdsOrNeither ==
    (pc = "return" /\ cur.stage = "commit")
    => (InLedger(cur.m) <=> InLedger(cur.o))

\* process_mention has returned after both calls; the original id is in the
\* ledger and the mention id is neither in the set nor in the file.
C18_Witness ==
    /\ pc = "return"
    /\ cur.stage = "commit"
    /\ InLedger(cur.o)
    /\ ~InLedger(cur.m)

\* C19.  In every iteration of run, each id that is in pending_tweets when
\* the iteration starts has been attempted by process_pending_tweets when
\* get_mentions is called.
C19_PendingRetriedBeforeDiscovery ==
    pc = "fetch" => (pending_tweets \cup retry.removed) \subseteq retry.attempted

\* run is about to call get_mentions after a retry of two pending ids, one
\* of which had no media URL.
C19_Witness ==
    /\ pc = "fetch"
    /\ pending_tweets = {1, NumOriginals + 1}
    /\ retry.attempted = pending_tweets
    /\ retry.media = {1}

\* C20.  Neither run loop stops polling unless the process is interrupted:
\* an error that comes up in a cycle leaves the loop in a wait that is
\* followed by a new cycle.  ("boot" and "down" are where kill and interrupt
\* leave the process; "off" is a bot that is not deployed.)
C20_StopsOnlyOnInterrupt ==
    /\ pc \in {"off", "boot", "pending", "fetch", "mentions", "save_mention",
              "save_original", "return", "error_wait"}
    /\ rpc \in {"off", "down", "check", "sleep", "error_wait"}
    /\ pc = "error_wait" => ENABLED next_cycle_after_error
    /\ rpc = "error_wait" => ENABLED next_check_after_error

\* An error was caught at the boundary of the loop of TwitterBot.run after
\* ids had been recorded, and run is in its 60 s wait.
C20_Witness ==
    /\ pc = "error_wait"
    /\ processed_mentions # {}

\* C21.  When get_tweet answers nothing for the original of a mention (the
\* original is deleted or unavailable), process_mention still records the
\* mention id in processed_mentions, so that the mention is not retried.
C21_UnavailableOriginalRecorded ==
    (pc = "return" /\ cur.why = "no_tweet") => InLedger(cur.m)

\* process_mention has returned at "Could not get original tweet" and the
\* mention id is in no ledger.
C21_Witness ==
    /\ pc = "return"
    /\ cur.why = "no_tweet"
    /\ ~InLedger(cur.m)
    /\ ~InLedger(cur.o)

\* C22.  Direct repost: once create_tweet has answered Forbidden for an item,
\* the next iteration of run that calls create_tweet does not call it for
\* that item again.
C22_ForbiddenNotRetried ==
    [][ ( /\ iter.post = "forbidden"
          /\ rpc = "check" /\ rpc' = "sleep"
          /\ iter'.post # "na" )
        => iter'.tweet # iter.tweet ]_vars

\* The last iteration ended with Forbidden, the cursor was left where it was
\* and run is about to fetch the same item again.
C22_Witness ==
    /\ iter.post = "forbidden"
    /\ rpc = "check"
    /\ latest = iter.tweet
    /\ last_processed_id # iter.tweet

\* C23.  Direct repost: when create_tweet raises TooManyRequests, run handles
\* it in the rate-limit handler of its loop (the wait until the reset time),
\* not as a failure of the item followed by the ordinary sleep.
C23_RateLimitReachesLoopHandler ==
    (iter.post = "rate_limit" /\ rpc # "check") => rpc = "error_wait"

\* create_tweet has raised TooManyRequests and run is in its ordinary sleep
\* of check_interval, the cursor untouched.
C23_Witness ==
    /\ iter.post = "rate_limit"
    /\ rpc = "sleep"
    /\ ~iter.advanced

\* C24.  The sleep of a rate-limit handler lasts max(reset - now, 60)
\* seconds: never less than 60, whatever the reset header says, also when
\* it names a time in the past or is missing.
C24_RateLimitWait ==
    call.fn \in {"rate_limit_wait", "rate_limit_wait_1_0"}
    => /\ ~call.wait.raised
       /\ call.wait.seconds >= minimum_wait
       /\ call.wait.seconds =
            Max2((IF call.reset.present THEN call.reset.value ELSE 0) - call.now,
                 minimum_wait)

\* The handler of xBot_1_0.py was entered with a reset time in the past and
\* sleeps for 0 seconds.
C24_Witness ==
    /\ call.fn = "rate_limit_wait_1_0"
    /\ call.reset.present
    /\ call.reset.value < call.now
    /\ call.wait.seconds = 0



\* C25.  Adding an id to processed_mentions, downloaded_tweets or
\* processed_accounts replaces the whole file atomically and is never a bare
\* append: killed at any point of the write, the file holds its previous
\* lines, with or without the new id, and nothing else.
C25_AtomicReplaceOnEveryLedger ==
    call.fn = "kill_during_save"
    => /\ call.mechanism = "replace"
       /\ ~call.left.torn
       /\ call.left.ids \in {call.file, call.file \cup {call.id}}

\* save_processed_account was killed while it appended to
\* processed_accounts.txt, which now ends in a part of a line.
C25_Witness ==
    /\ call.fn = "kill_during_save"
    /\ call.ledger = "processed_accounts"
    /\ call.mechanism = "append"
    /\ call.at = "writing"
    /\ call.left.torn
    /\ call.left.ids = call.file



\* C26.  A start of the bot with a ledger file missing succeeds and loads
\* the empty set for that ledger (a missing cursor file gives no cursor in
\* the direct-repost bot), and while no processed_mentions are held no
\* mention is skipped as already processed.
C26_MissingFilesLoadEmpty ==
    [][ /\ pc = "boot" /\ pc' # "boot"
          => /\ pc' = "pending"
             /\ ~Exists(processed_mentions_file) => processed_mentions' = {}
             /\ ~Exists(processed_accounts_file) => processed_accounts' = {}
             /\ ~Exists(pending_tweets_file) => pending_tweets' = {}
             /\ ~Exists(downloaded_tweets_file) => downloaded_tweets' = {}
        /\ (rpc = "down" /\ rpc' = "check" /\ last_processed_id_file = NoRef)
             => last_processed_id' = NoRef
        /\ (pc = "mentions" /\ pc' \in {"return", "save_mention"}
               /\ processed_mentions = {})
             => cur'.why \notin {"mention_done", "original_done"}
      ]_vars

\* The bot was killed after a reply and started again with no
\* processed_mentions.txt; every mention it has fetched is new.
C26_Witness ==
    /\ pc = "mentions"
    /\ crashed_after_reply # NoRef
    /\ ~Exists(processed_mentions_file)
    /\ processed_mentions = {}
    /\ new_mentions = Mentions



\* C27.  Whatever way extract_text returns (text extracted, OCR failed,
\* download failed, detection or translation failed), no temporary file it
\* created is left behind.
C27_TempFileDeleted ==
    call.fn = "extract_text" => ~call.temp_left

\* Writing the downloaded image to the temporary file failed; extract_text
\* has returned None and the file it created is still there.
C27_Witness ==
    /\ call.fn = "extract_text"
    /\ call.fails_at = "tempfile"
    /\ call.temp_created
    /\ call.temp_left
    /\ call.text = "null"

\* C28.  A cycle that polls an item which is already committed leaves every
\* ledger as it was, in memory and in the files: the retry of the pending
\* ids and the discovery change none, process_mention for a mention whose id
\* or whose original's id is in processed_mentions returns without a write,
\* and the direct-repost loop leaves its cursor and its file alone when the
\* newest post is the one the cursor names.
C28_RepollChangesNoLedger ==
    [][ /\ (pc \in {"pending", "fetch"} /\ pc' \in {"fetch", "mentions"})
             => ledgers' = ledgers
        /\ \A m \in Mentions :
             ( /\ pc = "mentions"
               /\ cur'.m = m
               /\ (m \in processed_mentions \/ RefOf(m) \in processed_mentions) )
             => /\ ledgers' = ledgers
                /\ pc' = "return"
        /\ ( /\ rpc = "check" /\ rpc' \in {"check", "sleep"}
             /\ latest # NoRef
             /\ latest = last_processed_id )
             => /\ last_processed_id' = last_processed_id
                /\ last_processed_id_file' = last_processed_id_file
                /\ posts' = posts
      ]_vars

\* process_mention has returned for a mention whose original was committed
\* before; the ledgers hold what that commit left.
C28_Witness ==
    /\ pc = "return"
    /\ cur.why = "original_done"
    /\ cur.o \in FileSet(processed_mentions_file)
    /\ processed_accounts # {}

\* C29.  After every completed ledger operation, also one whose write to the
\* file failed, each in-memory set holds exactly the ids its file holds.
C29_MemoryEqualsFile ==
    pc \notin {"boot", "off"}
    => /\ processed_mentions = FileSet(processed_mentions_file)
       /\ processed_accounts = FileSet(processed_accounts_file)
       /\ pending_tweets = FileSet(pending_tweets_file)
       /\ downloaded_tweets = FileSet(downloaded_tweets_file)

\* Both save_processed_mention calls of a commit have returned after failed
\* writes: the two ids are in the set and the file holds neither.
C29_Witness ==
    /\ pc = "return"
    /\ cur.stage = "commit"
    /\ {cur.m, cur.o} \subseteq processed_mentions
    /\ FileSet(processed_mentions_file) = {}

\* C30.  extract_text does not translate: the text it returns is the text of
\* the image in the language it was written in, so for a French image the
\* detection of process_mention does not answer 'en'.
C30_ExtractionDoesNotTranslate ==
    /\ (call.fn = "extract_text" /\ call.text # "null")
       => (call.tr = "na" /\ call.text = call.image)
    /\ (cur.o # NoRef /\ cur.det # "na")
       => (original_tweet[cur.o].text = "fr" => cur.det # "en")

\* The original is a French text in an image; process_mention has detected
\* 'en' in what extract_text returned and has ended with "no translation
\* needed" and no reply.
C30_Witness ==
    /\ pc = "return"
    /\ cur.o # NoRef
    /\ original_tweet[cur.o] = [text |-> "fr", attachments |-> TRUE]
    /\ cur.det = "en"
    /\ cur.why = "no_translation_needed"
    /\ ~cur.replied

\* C31.  Every iteration of the direct-repost loop ends in a sleep (or in a
\* rate-limit / error wait) before the source is polled again, also the
\* iteration that finds the post to be English: a step that leaves run at
\* the top of its loop is no iteration.
C31_SleepBetweenPolls ==
    [][ (rpc = "check" /\ rpc' = "check")
        => UNCHANGED <<iter, last_processed_id, last_processed_id_file>> ]_vars

\* The iteration found the post to be English, moved the cursor and is back
\* at get_latest_tweet without a sleep.
C31_Witness ==
    /\ rpc = "check"
    /\ iter.det = "en"
    /\ iter.advanced
    /\ last_processed_id = latest

\* C32.  A stage that fails inside process_mention, or inside the body of
\* the loop of process_pending_tweets, ends that item only: process_mention
\* comes back to the for loop of run with every other new mention still to be
\* handled, and every pending id is attempted whatever the others did.
C32_ErrorsStayInsideTheItem ==
    [][ /\ (pc = "mentions" /\ cur' # Idle)
           => /\ pc' \in {"return", "save_mention"}
              /\ new_mentions' = new_mentions \ {cur'.m}
        /\ (pc \in {"save_mention", "save_original", "return"} /\ pc' # "boot")
           => /\ pc' \in {"save_original", "return", "mentions"}
              /\ new_mentions' = new_mentions
        /\ (pc = "pending" /\ pc' = "fetch")
           => retry'.attempted = pending_tweets ]_vars

\* The translation of one mention's original failed; process_mention has
\* returned and two more mentions of the batch are waiting.
C32_Witness ==
    /\ pc = "return"
    /\ cur.why = "translate_null"
    /\ Cardinality(new_mentions) = 2

\* C33.  When get_tweet answers nothing for the original of a mention,
\* process_mention returns with no ledger changed and nothing published, and
\* neither the mention id nor the original's id is in processed_mentions, in
\* memory or in the file: the filter of run lets the mention through again
\* on a later poll.
C33_FailedFetchLeftForLater ==
    [][ /\ (pc = "mentions" /\ cur'.why = "no_tweet")
           => /\ pc' = "return"
              /\ UNCHANGED <<ledgers, history>>
        /\ (pc = "return" /\ cur.why = "no_tweet" /\ pc' # "boot")
           => /\ pc' = "mentions"
              /\ UNCHANGED <<ledgers, history>>
              /\ ~InLedger(cur.m)'
              /\ ~InLedger(cur.o)' ]_vars

\* The original of a mention could not be fetched: process_mention has
\* returned, the original has no reply and the mention is in no ledger.
C33_Witness ==
    /\ pc = "return"
    /\ cur.why = "no_tweet"
    /\ replies[cur.o] = 0
    /\ cur.m \notin processed_mentions
    /\ cur.m \notin FileSet(processed_mentions_file)

\* C34.  Direct repost: the cursor moves only in an iteration that published
\* the post or found it to be English, and after every iteration the cursor
\* held by run is the cursor in last_processed_id.txt.
C34_CursorInMemoryEqualsFile ==
    rpc \in {"check", "sleep", "error_wait"}
        => /\ last_processed_id = _read_last_processed_id(last_processed_id_file)
           /\ iter.advanced => (iter.post = "ok" \/ iter.det = "en")

\* An iteration published the translation, the write of the cursor file
\* failed, and run sleeps with a cursor the file does not hold.
C34_Witness ==
    /\ rpc = "sleep"
    /\ iter.post = "ok"
    /\ iter.advanced
    /\ last_processed_id = latest
    /\ last_processed_id_file # latest

\* C35.  processed_accounts changes no outcome of process_mention: for an
\* original with media, the media URL that process_mention goes on with is
\* what get_media_url finds for the original, whether the author was in
\* processed_accounts or not; every later stage (extraction, detection,
\* translation, publication, the two ledger writes) is given that URL and
\* never the ledger.
C35_AccountsLedgerIsOptimizationOnly ==
    cur.lookup.account \in {"known", "new"}
        => /\ \A media \in MediaAnswers :
                  media_url_for(TRUE, media) = media_url_for(FALSE, media)
           /\ cur.lookup.image_url = get_media_url(cur.lookup.media)
           /\ original_tweet[cur.o].attachments
           /\ (cur.lookup.image_url = "none" => cur.ocr = "na")

\* The author of the original was in processed_accounts, the media URL was
\* found all the same, and the translation has been published.
C35_Witness ==
    /\ pc = "save_mention"
    /\ cur.lookup.account = "known"
    /\ cur.lookup.image_url = "url"
    /\ cur.replied
    /\ AuthorOf(cur.o) \in processed_accounts

\* C36.  In a run of the fully configured archive bot in which the process
\* is never killed, no cycle ends in an error and every stage of every
\* process_mention call succeeds, a mention that is handed to process_mention
\* on its own, of a non-English original (text only, or with media) that is
\* not in the ledger, is followed by a state in which the original has
\* exactly one reply and both ids are in processed_mentions.
EveryStageSucceeds ==
    /\ pc \notin {"boot", "crashed", "error_wait"}
    /\ cur.why \notin {"no_tweet", "translate_null", "local_write_fail"}
    /\ cur.ocr = "na"
    /\ cur.lookup.image_url # "none"
    /\ cur.det # "null"
    /\ cur.up # "fail"
    /\ (cur.up = "ok" => cur.replied)
    /\ (pc = "save_original" => cur.m \in FileSet(processed_mentions_file))
    /\ (pc = "return" /\ cur.stage = "commit")
          => {cur.m, cur.o} \subseteq FileSet(processed_mentions_file)

Delivered(m) ==
    /\ archive_enabled
    /\ detect_api_key
    /\ pc = "mentions"
    /\ new_mentions = {m}
    /\ original_tweet[RefOf(m)].text # "en"
    /\ ~InLedger(RefOf(m))
    /\ replies[RefOf(m)] = 0

RepliedOnceAndRecorded(m) ==
    /\ replies[RefOf(m)] = 1
    /\ {m, RefOf(m)} \subseteq processed_mentions

C36_EventuallyRepliedAndRecorded ==
    []EveryStageSucceeds
        => \A m \in {x \in Mentions : RefOf(x) # NoRef} :
               Delivered(m) ~> RepliedOnceAndRecorded(m)

\* The text read from the image of a French original came back from
\* extract_text in English, process_mention found nothing to translate, and
\* both ids are recorded while the original has no reply.
C36_Witness ==
    /\ pc = "return"
    /\ cur.why = "no_translation_needed"
    /\ cur.lookup.image_url = "url"
    /\ cur.ocr = "na"
    /\ original_tweet[cur.o].text = "fr"
    /\ cur.det = "en"
    /\ replies[cur.o] = 0
    /\ {cur.m, cur.o} \subseteq processed_mentions

\* C37.  For every text and every max_length, also one below 3,
\* truncate_tweet returns a text of at most max_length units, and returns
\* the text as it is when it has at most max_length units.
C37_TruncateWithinAnyLimit ==
    call.fn = "truncate_tweet_max_length"
        => /\ Len(call.out.s) <= call.limit
           /\ (Len(call.arg.s) <= call.limit => call.out = call.arg)

\* truncate_tweet was given five units and max_length 2, and has returned
\* seven units: the first four and the ellipsis.
C37_Witness ==
    /\ call.fn = "truncate_tweet_max_length"
    /\ call.limit = 2
    /\ Len(call.arg.s) = 5
    /\ call.out.s = Chars(4) \o Ellipsis

\* C38.  save_processed_mention is idempotent: a second call with the same
\* id, whatever the outcome of either write, leaves the set and the file as
\* the first call left them; and no id is written twice to
\* processed_mentions.txt.
C38_SaveIsIdempotent ==
    /\ \A id \in Ids : processed_mentions_file[id] <= 1
    /\ \A id \in Ids, io1 \in IOResults, io2 \in IOResults :
         LET once == save_processed_mention(processed_mentions,
                                            processed_mentions_file, id, io1)
             twice == save_processed_mention(once.mem, once.file, id, io2)
         IN  /\ twice = once
             /\ once.file[id] <= 1

\* Both ids of a handled mention have been written, each on one line, and
\* the set in memory holds them.
C38_Witness ==
    /\ pc = "return"
    /\ cur.stage = "commit"
    /\ processed_mentions_file[cur.m] = 1
    /\ processed_mentions_file[cur.o] = 1
    /\ {cur.m, cur.o} \subseteq processed_mentions

C40_CursorFollowsNumericOrder ==
    call.fn = "_process_tweet"
        => /\ call.skipped[1] <=> (call.cursor # 0 /\ call.id <= call.cursor)
           /\ call.cursor_file = call.id => call.skipped[2]

\* The cursor is 10 and the mention's id is 9: "9" <= "10" is false for two
\* strings, so the older mention was handled, and handled again by the
\* second call.
C40_Witness ==
    /\ call.fn = "_process_tweet"
    /\ call.cursor = 10
    /\ call.id = 9
    /\ call.skipped = <<FALSE, FALSE>>
    /\ call.cursor_file = 9

====
